---------------------------- MODULE Spec2Model ----------------------------
(***************************************************************************)
(* Model of the short-put trade-decision subsystem:                        *)
(*   - shared/utils/trading_criteria.py  (TradingContext, the criteria,    *)
(*     CriteriaManager)                                                    *)
(*   - core/risk_manager.py              (sizing, circuit breakers)        *)
(*   - strategies/sell_put/{main,portfolio_manager,stock_manager,          *)
(*     position_manager}.py              (the tick state machine)          *)
(*                                                                         *)
(* Numbers.  Python floats are modelled exactly: fractions in [0,1]        *)
(* (delta, volatility, trend strength) are integers in hundredths,         *)
(* weights are integers in tenths, scores and the Kelly fraction are       *)
(* rationals <<n, d>> with d > 0 compared by cross-multiplication.         *)
(***************************************************************************)
EXTENDS Integers, Sequences, FiniteSets, TLC

VARIABLES
    \* ---- CriteriaManager (trading_criteria.py) ----
    criteria,      \* CriteriaManager.criteria: the ordered list of criteria
    lastCall,      \* the last should_trade call: its context and what it returned
    removed,       \* history: remove_criterion has taken a criterion out
    \* ---- account, histories and the RiskManager (core/risk_manager.py) ----
    TotalPortfolioValue,   \* algorithm.Portfolio.TotalPortfolioValue (dollars)
    MarginRemaining,       \* algorithm.Portfolio.MarginRemaining (dollars)
    peak_portfolio_value,  \* algorithm.peak_portfolio_value
    trades,                \* stock_manager.trades, per stock
    daily_pnl,             \* stock_manager.daily_pnl, per stock
    daily_portfolio_pnl,   \* portfolio_manager.daily_portfolio_pnl
    completed,             \* history: realized PnL of the trades in the order they were closed
    riskCall,              \* the last RiskManager call and what it computed
    \* ---- the strategy (strategies/sell_put) ----
    Time,                      \* algorithm.Time.date(), a day number
    current_contract,          \* stock_manager.current_contract, per stock
    holdings,                  \* Portfolio[current_contract.Symbol].Quantity, per stock
    underlying_quantity,       \* Portfolio[ticker].Quantity, per stock
    last_trade_date,           \* stock_manager.last_trade_date, per stock
    latest_slice,              \* data_handler.latest_slice (the same slice for every stock)
    pm_peak_portfolio_value,   \* portfolio_manager.peak_portfolio_value
    max_stocks,                \* portfolio_manager.max_stocks
    order_faults,              \* the brokerage: whether it can reject an order it was sent
    last_portfolio_value,      \* portfolio_manager._last_portfolio_value
    highest_observed,          \* history: the highest portfolio value seen at a tick
    ticks,                     \* history: ticks so far
    tick,                      \* history: what the last tick saw and did
    \* ---- the contract selection of PositionManager (position_manager.py) ----
    selector_input,    \* the chain, the market regime and the option frequency at hand
    selector_call      \* the last selection and what it returned

critVars == <<criteria, lastCall, removed>>

riskVars == <<TotalPortfolioValue, MarginRemaining, peak_portfolio_value, trades,
              daily_pnl, daily_portfolio_pnl, completed, riskCall>>

tickVars == <<Time, current_contract, holdings, underlying_quantity, last_trade_date,
              latest_slice, pm_peak_portfolio_value, last_portfolio_value,
              max_stocks, order_faults, highest_observed, ticks, tick>>

selectVars == <<selector_input, selector_call>>

vars == <<critVars, riskVars, tickVars, selectVars>>

-----------------------------------------------------------------------------
(* Rationals <<n, d>>, d > 0 *)

RECURSIVE GCD(_, _)
GCD(a, b) == IF b = 0 THEN a ELSE GCD(b, a % b)

\* n/d in lowest terms (d > 0)
Rat(n, d) ==
    LET g == GCD(IF n < 0 THEN -n ELSE n, d)
    IN  <<n \div g, d \div g>>
RLt(a, b) == a[1] * b[2] < b[1] * a[2]
RLe(a, b) == a[1] * b[2] <= b[1] * a[2]
REq(a, b) == a[1] * b[2] = b[1] * a[2]
RAdd(a, b) == Rat(a[1] * b[2] + b[1] * a[2], a[2] * b[2])
RScale(k, a) == Rat(k * a[1], a[2])
RZero == <<0, 1>>
ROne == <<1, 1>>
RMax0(a) == IF a[1] < 0 THEN RZero ELSE a

Abs(x) == IF x < 0 THEN -x ELSE x

-----------------------------------------------------------------------------
(* Bounds of the criteria model *)

MaxCriteria == 2        \* criteria a manager holds at most

NoneVal == "None"       \* Python's None in a string-typed field

-----------------------------------------------------------------------------
(* TradingContext and its validation *)

\* The context every field of which is in range (test_criteria_context.py:72-82).
BaseContext ==
    [delta |-> 30, dte |-> 30, strike |-> 100, underlying_price |-> 105,
     volatility |-> 25, market_regime |-> "bullish_low_vol", rsi |-> 45,
     trend_direction |-> "bullish", trend_strength |-> 70]

ContextFields ==
    {"delta", "dte", "strike", "underlying_price", "volatility",
     "market_regime", "rsi", "trend_direction", "trend_strength"}

\* Values a field takes in the contexts explored: the defaults of the dataclass
\* (0, "unknown", "neutral"), range boundaries, values outside the ranges, None.
FieldValues(f) ==
    CASE f = "delta" -> {0, 30, 55, 75, 100, 150}
      [] f = "dte" -> {-5, 0, 30}
      [] f = "strike" -> {-1, 0, 100}
      [] f = "underlying_price" -> {-1, 0, 105}
      [] f = "volatility" -> {-1, 0, 25, 60, 200, 300}
      [] f = "market_regime" -> {"bullish_low_vol", "bearish_high_vol", "unknown", NoneVal}
      [] f = "rsi" -> {-1, 0, 45, 80, 100, 150}
      [] f = "trend_direction" -> {"bullish", "bearish", "neutral", NoneVal}
      [] f = "trend_strength" -> {-1, 0, 70, 100, 150}

\* The contexts explored differ from the base context in one of these pairs of
\* fields (so that one context can break two checks at once).
DeviatingFields ==
    {<<"delta", "dte">>, <<"delta", "volatility">>, <<"strike", "underlying_price">>,
     <<"market_regime", "trend_direction">>, <<"rsi", "trend_strength">>,
     <<"delta", "market_regime">>, <<"volatility", "trend_direction">>}

Contexts ==
    UNION {{[BaseContext EXCEPT ![D[1]] = x, ![D[2]] = y] :
                x \in FieldValues(D[1]), y \in FieldValues(D[2])} :
           D \in DeviatingFields}

\* One check of TradingContext.validate: the error it appends, or none.
Check(cond, msg) == IF cond THEN <<msg>> ELSE <<>>

\* TradingContext.validate: the list of errors, in the order the code appends them.
validate_all_errors(ctx) ==
    Check(ctx.delta = 0, "Delta is required")
    \o Check(ctx.dte = 0, "DTE is required")
    \o Check(ctx.underlying_price = 0, "Underlying price is required")
    \o Check(ctx.strike = 0, "Strike price is required")
    \o Check(~(0 <= ctx.delta /\ ctx.delta <= 100), "Delta must be between 0.0 and 1.0")
    \o Check(ctx.dte < 0, "DTE must be non-negative")
    \o Check(ctx.underlying_price < 0, "Underlying price must be non-negative")
    \o Check(ctx.strike < 0, "Strike price must be non-negative")
    \o Check(~(0 <= ctx.volatility /\ ctx.volatility <= 200),
             "Volatility must be between 0.0 and 2.0")
    \o Check(~(0 <= ctx.rsi /\ ctx.rsi <= 100), "RSI must be between 0.0 and 100.0")
    \o Check(~(0 <= ctx.trend_strength /\ ctx.trend_strength <= 100),
             "Trend strength must be between 0.0 and 1.0")

\* A validation that stops at the first error it finds.
validate_first_error(ctx) ==
    IF validate_all_errors(ctx) = <<>> THEN <<>> ELSE <<Head(validate_all_errors(ctx))>>

validate(ctx) == validate_all_errors(ctx)

-----------------------------------------------------------------------------
(* The criteria *)

Criterion(name, weight, lo, hi, allowed) ==
    [name |-> name, weight |-> weight, lo |-> lo, hi |-> hi, allowed |-> allowed]

\* The criteria a manager is built from: one of each class, and a second Delta
\* criterion with another range and weight (the class fixes the name).
CriteriaPool ==
    {Criterion("Delta", 10, 25, 75, {}),
     Criterion("Delta", 20, 50, 60, {}),
     Criterion("MarketRegime", 8, 0, 0, {"bullish_low_vol", "bullish_normal_vol"}),
     Criterion("Volatility", 5, 0, 50, {}),
     Criterion("DTE", 6, 21, 45, {}),
     Criterion("RSI", 8, 25, 75, {}),
     Criterion("Trend", 7, 0, 0, {"bullish", "neutral"})}

\* TradingCriterion.get_required_fields of each class.
get_required_fields(c) ==
    CASE c.name = "Delta" -> <<"delta">>
      [] c.name = "MarketRegime" -> <<"market_regime">>
      [] c.name = "Volatility" -> <<"volatility">>
      [] c.name = "DTE" -> <<"dte">>
      [] c.name = "RSI" -> <<"rsi">>
      [] c.name = "Trend" -> <<"trend_direction", "trend_strength">>

Evaluation(result, score) == [result |-> result, score |-> score]

\* Score of a value v in [lo, hi] by its distance to the middle of the range:
\* max(0, 1 - |v - (lo+hi)/2| / ((hi-lo)/2)).
MidRangeScore(v, lo, hi) == RMax0(Rat((hi - lo) - Abs(2 * v - lo - hi), hi - lo))

DeltaCriterion_evaluate(c, ctx) ==
    LET delta_abs == Abs(ctx.delta)
    IN  IF c.lo <= delta_abs /\ delta_abs <= c.hi
        THEN Evaluation("PASS", MidRangeScore(delta_abs, c.lo, c.hi))
        ELSE Evaluation("FAIL", RZero)

MarketRegimeCriterion_evaluate(c, ctx) ==
    IF ctx.market_regime \in c.allowed
    THEN Evaluation("PASS", ROne)
    ELSE Evaluation("FAIL", RZero)

VolatilityCriterion_evaluate(c, ctx) ==
    IF ctx.volatility <= c.hi
    THEN Evaluation("PASS", RMax0(Rat(c.hi - ctx.volatility, c.hi)))
    ELSE Evaluation("FAIL", RZero)

DTECriterion_evaluate(c, ctx) ==
    IF c.lo <= ctx.dte /\ ctx.dte <= c.hi
    THEN Evaluation("PASS", MidRangeScore(ctx.dte, c.lo, c.hi))
    ELSE Evaluation("FAIL", RZero)

RSICriterion_evaluate(c, ctx) ==
    IF c.lo <= ctx.rsi /\ ctx.rsi <= c.hi
    THEN Evaluation("PASS", RMax0(Rat(50 - Abs(ctx.rsi - 50), 50)))
    ELSE Evaluation("FAIL", RZero)

TrendCriterion_evaluate(c, ctx) ==
    IF ctx.trend_direction \in c.allowed
    THEN Evaluation("PASS", Rat(ctx.trend_strength, 100))
    ELSE Evaluation("FAIL", RZero)

\* criterion.evaluate(context), dispatched on the class.
evaluate(c, ctx) ==
    CASE c.name = "Delta" -> DeltaCriterion_evaluate(c, ctx)
      [] c.name = "MarketRegime" -> MarketRegimeCriterion_evaluate(c, ctx)
      [] c.name = "Volatility" -> VolatilityCriterion_evaluate(c, ctx)
      [] c.name = "DTE" -> DTECriterion_evaluate(c, ctx)
      [] c.name = "RSI" -> RSICriterion_evaluate(c, ctx)
      [] c.name = "Trend" -> TrendCriterion_evaluate(c, ctx)

-----------------------------------------------------------------------------
(* CriteriaManager *)

RECURSIVE SetToSeq(_)
SetToSeq(S) ==
    IF S = {} THEN <<>>
    ELSE LET x == CHOOSE y \in S : TRUE IN <<x>> \o SetToSeq(S \ {x})

Range(s) == {s[i] : i \in DOMAIN s}

\* The keys of a dict filled by "for c in criteria: d[c.name] = ...", in the
\* order of their first insertion.
RECURSIVE DictKeys(_)
DictKeys(cs) ==
    IF cs = <<>> THEN <<>>
    ELSE LET front == DictKeys(SubSeq(cs, 1, Len(cs) - 1))
             n == cs[Len(cs)].name
         IN  IF n \in Range(front) THEN front ELSE Append(front, n)

\* The criterion whose result the dict holds under key n once the loop is over:
\* a later criterion of the same name overwrites the entry of an earlier one.
DictSlot(cs, n) == CHOOSE i \in DOMAIN cs :
    cs[i].name = n /\ \A j \in DOMAIN cs : cs[j].name = n => j <= i

\* CriteriaManager.get_required_fields: the union, as a set.
manager_required_fields(cs) ==
    UNION {Range(get_required_fields(cs[i])) : i \in DOMAIN cs}

MissingError(f) == "Required field is missing: " \o f

\* getattr(context, field) is None.  The numeric fields of the contexts explored
\* hold numbers (validate() compares them and raises on None); the two
\* string-typed fields may hold None.
IsNone(ctx, f) == f \in {"market_regime", "trend_direction"} /\ ctx[f] = NoneVal

\* CriteriaManager.validate_context: the errors of context.validate(), then one
\* error per required field that is None (in the order Python's set yields them).
validate_context(cs, ctx) ==
    LET missing == {f \in manager_required_fields(cs) : IsNone(ctx, f)}
    IN  validate(ctx) \o [i \in 1..Cardinality(missing) |-> MissingError(SetToSeq(missing)[i])]

\* CriteriaManager.evaluate_all: the dict name -> evaluation, and the criteria
\* (by position) whose evaluate() ran.
evaluate_all(cs, ctx) ==
    IF validate_context(cs, ctx) # <<>>
    THEN [results |-> [n \in Range(DictKeys(cs)) |-> Evaluation("FAIL", RZero)],
          evaluated |-> <<>>]
    ELSE [results |-> [n \in Range(DictKeys(cs)) |-> evaluate(cs[DictSlot(cs, n)], ctx)],
          evaluated |-> [i \in 1..Len(cs) |-> i]]

RECURSIVE SumWeights(_)
SumWeights(cs) ==
    IF cs = <<>> THEN 0 ELSE cs[Len(cs)].weight + SumWeights(SubSeq(cs, 1, Len(cs) - 1))

\* sum(evaluations[c.name].score * c.weight for c in self.criteria)
RECURSIVE SumWeightedScores(_, _)
SumWeightedScores(cs, results) ==
    IF cs = <<>> THEN RZero
    ELSE RAdd(SumWeightedScores(SubSeq(cs, 1, Len(cs) - 1), results),
              RScale(cs[Len(cs)].weight, results[cs[Len(cs)].name].score))

Outcome(admit, score, kind, errors, evaluated) ==
    [admit |-> admit, score |-> score, kind |-> kind, errors |-> errors,
     evaluated |-> evaluated]

\* CriteriaManager.should_trade once the manager is known to hold a criterion:
\* validation, then the evaluation of every criterion
validate_and_evaluate(cs, ctx) ==
    IF validate_context(cs, ctx) # <<>>
    THEN Outcome(FALSE, RZero, "invalid", validate_context(cs, ctx), <<>>)
    ELSE LET ev == evaluate_all(cs, ctx)
             failed_criteria == SelectSeq(DictKeys(cs), LAMBDA n : ev.results[n].result = "FAIL")
             total_weight == SumWeights(cs)
             sum == SumWeightedScores(cs, ev.results)
         IN  IF failed_criteria # <<>>
             THEN Outcome(FALSE, RZero, "blocked", failed_criteria, ev.evaluated)
             ELSE Outcome(TRUE,
                          IF total_weight > 0
                          THEN Rat(sum[1], sum[2] * total_weight) ELSE RZero,
                          "allowed", <<>>, ev.evaluated)

\* should_trade without the early return of the empty manager
should_trade_without_early_return(cs, ctx) == validate_and_evaluate(cs, ctx)

\* CriteriaManager.should_trade: (should_trade, overall_score, message); the
\* message is modelled by its kind and the errors or failing names it lists.
should_trade(cs, ctx) ==
    IF cs = <<>>
    THEN Outcome(TRUE, ROne, "no_criteria", <<>>, <<>>)
    ELSE validate_and_evaluate(cs, ctx)

NoCall == [called |-> FALSE]

\* No selection under way
NoInput == [chain |-> <<>>, regime |-> "normal", option_frequency |-> "monthly"]
SelectIdle ==
    /\ selector_input = NoInput
    /\ selector_call = NoCall

\* portfolio_manager.stock_managers: a dict, iterated in insertion order
Stocks == <<"A", "B">>
StockSet == {Stocks[i] : i \in DOMAIN Stocks}

\* The account and the histories of a strategy that has not traded
\* (ConfigurableShortPutStrategy.Initialize, StockManager.__init__).
initial_cash == 100000
RiskIdle ==
    /\ TotalPortfolioValue = initial_cash
    /\ MarginRemaining = initial_cash
    /\ peak_portfolio_value = initial_cash
    /\ trades = [s \in StockSet |-> <<>>]
    /\ daily_pnl = [s \in StockSet |-> <<>>]
    /\ daily_portfolio_pnl = <<>>
    /\ completed = <<>>
    /\ riskCall = NoCall

\* None, for a contract, a date, a slice, a portfolio value
NoContract == [Strike |-> 0, Expiry |-> 0]
NoDate == -1
NoSlice == [time |-> -1, chains |-> {}]
NoValue == -1
NoTick == [kind |-> "none"]

\* The strategy as Initialize leaves it: no position, no trade, no slice yet.
\* portfolio_config.get('max_stocks', 5)
default_max_stocks == 5

TickIdle ==
    /\ Time = 0
    /\ current_contract = [s \in StockSet |-> NoContract]
    /\ holdings = [s \in StockSet |-> 0]
    /\ underlying_quantity = [s \in StockSet |-> 0]
    /\ last_trade_date = [s \in StockSet |-> NoDate]
    /\ latest_slice = NoSlice
    /\ pm_peak_portfolio_value = initial_cash
    /\ last_portfolio_value = NoValue
    /\ highest_observed = initial_cash
    /\ ticks = 0
    /\ tick = NoTick

InitCriteria ==
    /\ criteria = <<>>
    /\ lastCall = NoCall
    /\ removed = FALSE
    /\ SelectIdle
    /\ RiskIdle
    /\ TickIdle
    /\ max_stocks = default_max_stocks
    /\ order_faults = FALSE

\* CriteriaManager.add_criterion
add_criterion(c) ==
    /\ Len(criteria) < MaxCriteria
    /\ criteria' = Append(criteria, c)
    /\ lastCall' = NoCall
    /\ UNCHANGED removed

\* CriteriaManager.remove_criterion
remove_criterion(name) ==
    /\ \E i \in DOMAIN criteria : criteria[i].name = name
    /\ criteria' = SelectSeq(criteria, LAMBDA c : c.name # name)
    /\ lastCall' = NoCall
    /\ removed' = TRUE

\* A call of CriteriaManager.should_trade(ctx); the manager is left as it is.
\* lastCall records one call against the manager as it stands; the next mutation
\* of the manager drops the record (a further call before it would see the same
\* manager, and is one of the calls explored here).
CallShouldTrade(ctx) ==
    /\ lastCall = NoCall
    /\ lastCall' = [called |-> TRUE, ctx |-> ctx, out |-> should_trade(criteria, ctx)]
    /\ UNCHANGED <<criteria, removed>>

NextCriteria ==
    /\ \/ \E c \in CriteriaPool : add_criterion(c)
       \/ \E n \in {c.name : c \in CriteriaPool} : remove_criterion(n)
       \/ \E ctx \in Contexts : CallShouldTrade(ctx)
    /\ UNCHANGED <<riskVars, tickVars, selectVars>>

SpecCriteria == InitCriteria /\ [][NextCriteria]_vars

-----------------------------------------------------------------------------
(* Claims about CriteriaManager, checked under SpecCriteria *)

\* The fields of a context outside the ranges of the data model.
RangeViolations(ctx) ==
    {f \in ContextFields :
        \/ f = "delta" /\ ~(0 <= ctx.delta /\ ctx.delta <= 100)
        \/ f = "dte" /\ ctx.dte < 0
        \/ f = "strike" /\ ctx.strike <= 0
        \/ f = "underlying_price" /\ ctx.underlying_price <= 0
        \/ f = "volatility" /\ ~(0 <= ctx.volatility /\ ctx.volatility <= 200)
        \/ f = "rsi" /\ ~(0 <= ctx.rsi /\ ctx.rsi <= 100)
        \/ f = "trend_strength" /\ ~(0 <= ctx.trend_strength /\ ctx.trend_strength <= 100)}

\* The required fields a context lacks.
MissingFields(cs, ctx) ==
    {f \in ContextFields :
        /\ \E i \in DOMAIN cs : f \in Range(get_required_fields(cs[i]))
        /\ IsNone(ctx, f)}

\* The field an error message names.
FieldOfError(msg) ==
    CASE msg \in {"Delta is required", "Delta must be between 0.0 and 1.0"} -> "delta"
      [] msg \in {"DTE is required", "DTE must be non-negative"} -> "dte"
      [] msg \in {"Underlying price is required",
                  "Underlying price must be non-negative"} -> "underlying_price"
      [] msg \in {"Strike price is required", "Strike price must be non-negative"} -> "strike"
      [] msg = "Volatility must be between 0.0 and 2.0" -> "volatility"
      [] msg = "RSI must be between 0.0 and 100.0" -> "rsi"
      [] msg = "Trend strength must be between 0.0 and 1.0" -> "trend_strength"
      [] OTHER -> CHOOSE f \in ContextFields : msg = MissingError(f)

NamedFields(errors) == {FieldOfError(errors[i]) : i \in DOMAIN errors}

\* Sum over every criterion of weight x the score of that criterion's own evaluation.
RECURSIVE OwnWeightedScores(_, _)
OwnWeightedScores(cs, ctx) ==
    IF cs = <<>> THEN RZero
    ELSE RAdd(OwnWeightedScores(SubSeq(cs, 1, Len(cs) - 1), ctx),
              RScale(cs[Len(cs)].weight, evaluate(cs[Len(cs)], ctx).score))

ValidCall == lastCall.called /\ validate_context(criteria, lastCall.ctx) = <<>>

\* C1: on a context that passes validation, if at least one registered criterion
\* (same-named criteria counted separately) evaluates to FAIL, should_trade
\* returns admit = false and score exactly 0.
C1_AnyFailureRejects ==
    (/\ ValidCall
     /\ \E i \in DOMAIN criteria : evaluate(criteria[i], lastCall.ctx).result = "FAIL")
    => (~lastCall.out.admit /\ REq(lastCall.out.score, RZero))

C3_WeightedMeanOfOwnScores ==
    (/\ ValidCall
     /\ criteria # <<>>
     /\ \A i \in DOMAIN criteria : evaluate(criteria[i], lastCall.ctx).result = "PASS")
    => /\ lastCall.out.admit
       /\ LET own == OwnWeightedScores(criteria, lastCall.ctx)
          IN  REq(lastCall.out.score, Rat(own[1], own[2] * SumWeights(criteria)))

-----------------------------------------------------------------------------
(* RiskManager (core/risk_manager.py): position sizing *)

RSub(a, b) == Rat(a[1] * b[2] - b[1] * a[2], a[2] * b[2])
RMul(a, b) == Rat(a[1] * b[1], a[2] * b[2])
\* a / b for b > 0
RDiv(a, b) == Rat(a[1] * b[2], a[2] * b[1])
RMin(a, b) == IF RLe(a, b) THEN a ELSE b
RMax(a, b) == IF RLe(a, b) THEN b ELSE a
\* Python's int(): truncation toward zero
int(a) == IF a[1] >= 0 THEN a[1] \div a[2] ELSE -((-a[1]) \div a[2])
Min2(x, y) == IF x <= y THEN x ELSE y
Max2(x, y) == IF x >= y THEN x ELSE y

\* RiskManager.__init__ (percentages are kept in percent, thresholds in tenths)
max_portfolio_risk == 2          \* 0.02
max_drawdown == 15               \* 0.15
volatility_lookback == 20
volatility_threshold == <<2, 5>>   \* 0.4
low_volatility == <<1, 10>>        \* 0.1
max_position_size == 20          \* 0.20, the default of getattr(...)

\* A trade record of stock_manager.trades: 'pnl' is written when the trade is closed.
ClosedTrade(pnl) == [has_pnl |-> TRUE, pnl |-> pnl]
OpenTrade == [has_pnl |-> FALSE, pnl |-> 0]

RECURSIVE ConcatStocks(_, _)
\* for stock_manager in stock_managers.values(): all.extend(stock_manager.<f>)
ConcatStocks(f, i) ==
    IF i > Len(Stocks) THEN <<>> ELSE f[Stocks[i]] \o ConcatStocks(f, i + 1)
all_trades(tr) == ConcatStocks(tr, 1)
all_daily_pnl == ConcatStocks(daily_pnl, 1)
\* stock_manager.daily_pnl holds dollar amounts with cents; the model holds cents
CentsPerDollar == 100

RECURSIVE SumSeq(_)
SumSeq(s) == IF s = <<>> THEN 0 ELSE Head(s) + SumSeq(Tail(s))
RECURSIVE SumSq(_)
SumSq(s) == IF s = <<>> THEN 0 ELSE Head(s) * Head(s) + SumSq(Tail(s))
PnlOf(ts) == [i \in DOMAIN ts |-> ts[i].pnl]
LastN(s, n) == IF Len(s) <= n THEN s ELSE SubSeq(s, Len(s) - n + 1, Len(s))

\* np.std(s) > r and np.std(s) < r for a rational r >= 0 and s non-empty:
\* std^2 = (n * sum(x^2) - sum(x)^2) / n^2
VarNum(s) == Len(s) * SumSq(s) - SumSeq(s) * SumSeq(s)
StdGt(s, r) == VarNum(s) * r[2] * r[2] > r[1] * r[1] * Len(s) * Len(s)
StdLt(s, r) == VarNum(s) * r[2] * r[2] < r[1] * r[1] * Len(s) * Len(s)

get_historical_win_rate(tr) ==
    LET completed_trades == SelectSeq(all_trades(tr), LAMBDA t : t.has_pnl)
        winning_trades == SelectSeq(completed_trades, LAMBDA t : t.pnl > 0)
    IN  IF completed_trades = <<>> THEN <<6, 10>>
        ELSE Rat(Len(winning_trades), Len(completed_trades))

get_average_win(tr) ==
    LET completed_trades == SelectSeq(all_trades(tr), LAMBDA t : t.has_pnl /\ t.pnl > 0)
    IN  IF completed_trades = <<>> THEN <<100, 1>>
        ELSE Rat(SumSeq(PnlOf(completed_trades)), Len(completed_trades))

\* What the unit test expects of get_average_loss: 0 with no losing trade.
average_loss_or_zero(tr) ==
    LET completed_trades == SelectSeq(all_trades(tr), LAMBDA t : t.has_pnl /\ t.pnl < 0)
    IN  IF completed_trades = <<>> THEN RZero
        ELSE Rat(Abs(SumSeq(PnlOf(completed_trades))), Len(completed_trades))

get_average_loss(tr) ==
    LET completed_trades == SelectSeq(all_trades(tr), LAMBDA t : t.has_pnl /\ t.pnl < 0)
    IN  IF completed_trades = <<>> THEN <<200, 1>>
        ELSE Rat(Abs(SumSeq(PnlOf(completed_trades))), Len(completed_trades))

\* (win_rate * avg_win - (1 - win_rate) * avg_loss) / avg_win
raw_kelly(win_rate, avg_win, avg_loss) ==
    RDiv(RSub(RMul(win_rate, avg_win), RMul(RSub(ROne, win_rate), avg_loss)), avg_win)

\* the raw value, not clamped
unclamped(k) == k

\* max(0.1, min(0.5, kelly_fraction))
clamp_kelly(k) == RMax(<<1, 10>>, RMin(<<1, 2>>, k))

\* the adjustment computed on every point of the lists instead of the last 20
volatility_adjustment_of_all_points ==
    IF Len(all_daily_pnl) < volatility_lookback THEN ROne
    ELSE IF StdGt(all_daily_pnl, RScale(CentsPerDollar, volatility_threshold)) THEN <<7, 10>>
    ELSE IF StdLt(all_daily_pnl, RScale(CentsPerDollar, low_volatility)) THEN <<12, 10>>
    ELSE ROne

\* RiskManager.get_volatility_adjustment (the daily PnL points are in cents)
get_volatility_adjustment ==
    IF Len(all_daily_pnl) < volatility_lookback THEN ROne
    ELSE LET recent_pnl == LastN(all_daily_pnl, volatility_lookback)
         IN  IF StdGt(recent_pnl, RScale(CentsPerDollar, volatility_threshold)) THEN <<7, 10>>
             ELSE IF StdLt(recent_pnl, RScale(CentsPerDollar, low_volatility)) THEN <<12, 10>>
             ELSE ROne

\* max(0, Strike - underlying_price * 0.5) * 100
calculate_max_loss(contract, underlying_price) ==
    Max2(0, 2 * contract.Strike - underlying_price) * 50

calculate_portfolio_risk_size(contract, underlying_price) ==
    LET potential_loss == calculate_max_loss(contract, underlying_price)
    IN  IF potential_loss <= 0 THEN 1
        ELSE int(Rat(TotalPortfolioValue * max_portfolio_risk, 100 * potential_loss))

\* the size the margin would allow if the whole portfolio value were available
margin_size_of_portfolio_value(contract) ==
    int(Rat(TotalPortfolioValue, contract.Strike * 20))

\* int(MarginRemaining / (Strike * 100 * 0.2))
calculate_margin_based_size(contract) ==
    int(Rat(MarginRemaining, contract.Strike * 20))

calculate_conservative_position_size(contract) ==
    Max2(1, int(Rat(TotalPortfolioValue * max_position_size, 100 * contract.Strike * 20)))

kelly_adjusted_size(contract, underlying_price, kelly_fraction) ==
    int(RScale(calculate_portfolio_risk_size(contract, underlying_price),
               RMul(kelly_fraction, get_volatility_adjustment)))

\* RiskManager.calculate_position_size on the trade lists tr: the size, the path
\* taken and the Kelly fraction before and after the clamp (the conservative
\* path computes none).
calculate_position_size(tr, contract, underlying_price) ==
    LET win_rate == get_historical_win_rate(tr)
        avg_win == get_average_win(tr)
        avg_loss == get_average_loss(tr)
        kelly_fraction == clamp_kelly(raw_kelly(win_rate, avg_win, avg_loss))
        optimal_size ==
            Min2(Min2(calculate_portfolio_risk_size(contract, underlying_price),
                      calculate_margin_based_size(contract)),
                 kelly_adjusted_size(contract, underlying_price, kelly_fraction))
    IN  IF REq(avg_loss, RZero)
        THEN [size |-> calculate_conservative_position_size(contract),
              path |-> "conservative", raw |-> RZero, kelly |-> RZero,
              volatility_factor |-> ROne]
        ELSE [size |-> Max2(1, optimal_size), path |-> "kelly",
              raw |-> raw_kelly(win_rate, avg_win, avg_loss), kelly |-> kelly_fraction,
              volatility_factor |-> get_volatility_adjustment]

-----------------------------------------------------------------------------
(* RiskManager (core/risk_manager.py): circuit breakers *)

\* current_value < algorithm.peak_portfolio_value * (1 - max_drawdown)
drawdown_breaker ==
    TotalPortfolioValue * 100 < peak_portfolio_value * (100 - max_drawdown)

\* recent_trades = [t for t in all_trades[-5:] if 'pnl' in t]; at least 3 of
\* them, and at least 3 with pnl < 0
consecutive_loss_breaker(tr) ==
    /\ all_trades(tr) # <<>>
    /\ LET recent_trades == SelectSeq(LastN(all_trades(tr), 5), LAMBDA t : t.has_pnl)
       IN  /\ Len(recent_trades) >= 3
           /\ Len(SelectSeq(recent_trades, LAMBDA t : t.pnl < 0)) >= 3

should_stop_trading(tr) == drawdown_breaker \/ consecutive_loss_breaker(tr)

-----------------------------------------------------------------------------
(* The RiskManager called on accounts and histories drawn from bounded sets *)

MaxTrades == 6          \* closed trades in a drawn history, all stocks together

\* Realized PnL of a winning and of a losing trade
WinPnl == 1000
LossPnl == -400

\* A closed trade of a history: the stock and the realized PnL
Events == {[ticker |-> s, pnl |-> x] : s \in StockSet, x \in {WinPnl, LossPnl}}

RECURSIVE Logs(_)
\* the histories of at most n closed trades, in closing order
Logs(n) ==
    IF n = 0 THEN {<<>>}
    ELSE LET shorter == Logs(n - 1)
         IN  shorter \cup {Append(l, e) : l \in {x \in shorter : Len(x) = n - 1},
                                          e \in Events}

\* stock_manager.trades of stock s after history log: its closed trades in
\* order, then the trade of the position it holds now (entered, no 'pnl' yet)
TradesOf(log, s, holding) ==
    LET own == SelectSeq(log, LAMBDA e : e.ticker = s)
    IN  [i \in DOMAIN own |-> ClosedTrade(own[i].pnl)]
        \o (IF s \in holding THEN <<OpenTrade>> ELSE <<>>)

\* Daily PnL series: n points, the first k of them hi and the rest lo
Series(n, k, hi, lo) == [i \in 1..n |-> IF i <= k THEN hi ELSE lo]
SeriesPool ==
    {<<>>} \cup {Series(n, k, a, -a) : n \in {19, 20, 21}, k \in {0, 5, 10},
                                       a \in {1, 300}}

\* Daily PnL lists of a stock, in cents: series of +/- 20 cents and of +/- 1
\* dollar, a list whose trailing 20 points deviate by a few cents (one point of
\* 30 cents), lists of 21 points whose first point alone deviates
DailyPnlPool ==
    {<<>>} \cup {Series(n, k, a, 0 - a) : n \in {19, 20, 21}, k \in {0, 5, 10},
                                          a \in {20, CentsPerDollar}}
           \cup {Series(20, 1, 30, 0), Series(21, 1, 30, 0), Series(21, 1, 3000, 0)}

\* Accounts: <<TotalPortfolioValue, MarginRemaining, peak_portfolio_value>>
Accounts ==
    {<<100000, 100000, 100000>>, <<100000, 5000, 120000>>, <<100000, -3000, 100000>>,
     <<10000, 10000, 10000>>, <<84000, 0, 100000>>, <<85000, 50000, 100000>>}

\* Contracts offered for sizing: <<Strike, underlying price>>
Quotes == {<<100, 105>>, <<20, 38>>, <<20, 39>>, <<100, 199>>, <<100, 210>>}

\* Either a rich trade history on the plain account, or a short history with
\* any account and any daily PnL series.
InitRisk ==
    /\ criteria = <<>>
    /\ max_stocks = default_max_stocks
    /\ order_faults = FALSE
    /\ lastCall = NoCall
    /\ removed = FALSE
    /\ SelectIdle
    /\ riskCall = NoCall
    /\ Time = 0
    /\ current_contract = [s \in StockSet |-> NoContract]
    /\ holdings = [s \in StockSet |-> 0]
    /\ underlying_quantity = [s \in StockSet |-> 0]
    /\ last_trade_date = [s \in StockSet |-> NoDate]
    /\ latest_slice = NoSlice
    /\ last_portfolio_value = NoValue
    /\ ticks = 0
    /\ tick = NoTick
    /\ \/ /\ \E log \in Logs(MaxTrades), holding \in SUBSET {Stocks[1]} :
                /\ trades = [s \in StockSet |-> TradesOf(log, s, holding)]
                /\ completed = [i \in DOMAIN log |-> log[i].pnl]
          /\ TotalPortfolioValue = initial_cash
          /\ MarginRemaining = initial_cash
          /\ peak_portfolio_value = initial_cash
          /\ daily_pnl = [s \in StockSet |-> <<>>]
          /\ daily_portfolio_pnl = <<>>
       \/ /\ \E log \in {<<>>, [i \in 1..5 |-> [ticker |-> Stocks[1],
                                 pnl |-> IF i <= 3 THEN WinPnl ELSE LossPnl]]} :
                /\ trades = [s \in StockSet |-> TradesOf(log, s, {})]
                /\ completed = [i \in DOMAIN log |-> log[i].pnl]
          /\ \E acct \in Accounts :
                /\ TotalPortfolioValue = acct[1]
                /\ MarginRemaining = acct[2]
                /\ peak_portfolio_value = acct[3]
          /\ \E sa \in DailyPnlPool : daily_pnl = [s \in StockSet |-> IF s = Stocks[1] THEN sa ELSE <<>>]
          /\ daily_portfolio_pnl \in SeriesPool
    /\ pm_peak_portfolio_value = peak_portfolio_value
    /\ highest_observed = peak_portfolio_value

\* risk_manager.calculate_position_size(contract, underlying_price)
CallCalculatePositionSize(contract, underlying_price) ==
    /\ riskCall = NoCall
    /\ riskCall' = [called |-> TRUE, op |-> "calculate_position_size",
                    contract |-> contract, underlying_price |-> underlying_price,
                    out |-> calculate_position_size(trades, contract, underlying_price)]
    /\ UNCHANGED <<TotalPortfolioValue, MarginRemaining, peak_portfolio_value, trades,
                   daily_pnl, daily_portfolio_pnl, completed>>

\* risk_manager.should_stop_trading()
CallShouldStopTrading ==
    /\ riskCall = NoCall
    /\ riskCall' = [called |-> TRUE, op |-> "should_stop_trading",
                    drawdown |-> drawdown_breaker,
                    consecutive |-> consecutive_loss_breaker(trades),
                    out |-> should_stop_trading(trades)]
    /\ UNCHANGED <<TotalPortfolioValue, MarginRemaining, peak_portfolio_value, trades,
                   daily_pnl, daily_portfolio_pnl, completed>>

NextRisk ==
    /\ \/ \E q \in Quotes : CallCalculatePositionSize([Strike |-> q[1]], q[2])
       \/ CallShouldStopTrading
    /\ UNCHANGED <<critVars, tickVars, selectVars>>

SpecRisk == InitRisk /\ [][NextRisk]_vars

-----------------------------------------------------------------------------
(* Claims about the RiskManager, checked under SpecRisk *)

SizingCall == riskCall.called /\ riskCall.op = "calculate_position_size"
BreakerCall == riskCall.called /\ riskCall.op = "should_stop_trading"

\* The three caps of the sizing rule for the recorded call, from the account and
\* the histories: portfolio-risk cap, margin cap, Kelly-adjusted cap.
PortfolioRiskCap == calculate_portfolio_risk_size(riskCall.contract, riskCall.underlying_price)
MarginCap == calculate_margin_based_size(riskCall.contract)
HistoryLosses == SelectSeq(all_trades(trades), LAMBDA t : t.has_pnl /\ t.pnl < 0)
HistoryAverageLoss ==
    IF HistoryLosses = <<>> THEN <<200, 1>>
    ELSE Rat(Abs(SumSeq(PnlOf(HistoryLosses))), Len(HistoryLosses))
ClampedKelly ==
    LET k == raw_kelly(get_historical_win_rate(trades), get_average_win(trades), HistoryAverageLoss)
    IN  IF RLt(k, <<1, 10>>) THEN <<1, 10>> ELSE IF RLt(<<1, 2>>, k) THEN <<1, 2>> ELSE k
KellyAdjustedCap ==
    int(RMul(RScale(PortfolioRiskCap, ClampedKelly), get_volatility_adjustment))

C5_KellyClamped ==
    (SizingCall /\ riskCall.out.path = "kelly") =>
        /\ RLe(<<1, 10>>, riskCall.out.kelly)
        /\ RLe(riskCall.out.kelly, <<1, 2>>)

\* A sizing call whose raw Kelly value was above 0.5 and entered as 0.5.
C5_Witness ==
    /\ SizingCall
    /\ riskCall.out.path = "kelly"
    /\ RLt(<<1, 2>>, riskCall.out.raw)
    /\ REq(riskCall.out.kelly, <<1, 2>>)

\* At least 3 of the 5 most recently closed trades, all stocks together, lost.
ThreeOfLastFiveLost ==
    Len(SelectSeq(LastN(completed, 5), LAMBDA x : x < 0)) >= 3

\* C7: the consecutive-loss breaker is tripped exactly when at least 3 of the 5
\* most recently completed trades, across all assets, are losses.
C7_ConsecutiveLossBreaker ==
    BreakerCall => (riskCall.consecutive <=> ThreeOfLastFiveLost)

\* C8: should_stop_trading reports a tripped breaker whenever the daily-PnL
\* window holds at least 20 points and its standard deviation exceeds
\* portfolio value x max risk fraction.
C8_VolatilityBreaker ==
    (/\ BreakerCall
     /\ Len(daily_portfolio_pnl) >= volatility_lookback
     /\ StdGt(daily_portfolio_pnl, Rat(TotalPortfolioValue * max_portfolio_risk, 100)))
    => riskCall.out

-----------------------------------------------------------------------------
(* The strategy (strategies/sell_put): what one tick does *)

MaxTicks == 2           \* ticks in a run
MaxDay == 30            \* the last day of a run

DayJump == 30                           \* days between two visits of the clock
PortfolioValues == {84000, 100000, 120000}
\* The account states the market produces, <<TotalPortfolioValue, MarginRemaining>>:
\* every value with ample margin, and the initial value with little margin left
AccountStates ==
    {<<value, 100000>> : value \in PortfolioValues} \cup {<<100000, 5000>>}
Deltas == {0, 30, 80}                   \* |delta| of a held contract, hundredths (0: no Greeks)
ExitFills == {1, 5}                     \* fill price of a buy-back
EntryFill == 3                          \* fill price of a sell-to-open
ScoreValues == {-55, 25, 105}           \* opportunity scores, tenths (weight * 10 +/- bonuses)

\* StockManager._setup_stock_parameters
target_delta_min == 25
target_delta_max == 75
\* PortfolioManager.__init__
pm_max_portfolio_risk == 2
pm_max_drawdown == 15
\* The put a chain offers: strike, price of the underlying, days to expiry
OfferedStrike == 20
OfferedUnderlying == 38
OfferedDTE == 30
\* MarketAnalyzer.get_optimal_dte_range, normal conditions
dte_min == 30
dte_max == 60

Max2Set(S) == CHOOSE x \in S : \A y \in S : y <= x

\* The part of the program state manage_positions works on; stop is what
\* risk_manager.should_stop_trading() answers on the trade lists tr (it is asked
\* after the closing loop, and tr does not change between then and the Sell).
Positions == [cc |-> current_contract, hold |-> holdings, tr |-> trades,
              ltd |-> last_trade_date, done |-> completed, stop |-> FALSE,
              fired |-> {}, closed |-> {}, entered |-> {}, recorded |-> {},
              sold |-> {}]

Invested(M, s) == M.cc[s] # NoContract /\ M.hold[s] # 0

\* the condition of the legacy single-stock strategy: near expiry, whatever the delta
exit_condition_dte_only(days_to_expiry, delta_out_of_range) == days_to_expiry <= 14

\* days_to_expiry <= 14 and delta_out_of_range
exit_condition(days_to_expiry, delta_out_of_range) ==
    days_to_expiry <= 14 /\ delta_out_of_range

\* delta < target_delta_min or delta > target_delta_max
delta_out_of_range(delta) == delta < target_delta_min \/ delta > target_delta_max

\* PositionManager.should_close_position, delta being abs(get_option_delta(...))
should_close_position(M, s, delta) ==
    /\ M.cc[s] # NoContract
    /\ M.hold[s] # 0
    /\ exit_condition(M.cc[s].Expiry - Time, delta_out_of_range(delta))

\* What a Buy can do: raise, or fill at a price; position.Quantity is read after
\* the call and is the quantity held before the fill or after it. A brokerage
\* that can reject orders returns a ticket that never fills (AverageFillPrice 0),
\* and the statements after the Buy can raise (booked is FALSE) before they
\* have written anything.
BuyOutcomes ==
    {[ok |-> FALSE, fill |-> 0, seen |-> "held", filled |-> FALSE, booked |-> FALSE]}
    \cup {[ok |-> TRUE, fill |-> f, seen |-> q, filled |-> TRUE, booked |-> TRUE] :
              f \in ExitFills, q \in {"held", "flat"}}
    \cup (IF order_faults
          THEN {[ok |-> TRUE, fill |-> 0, seen |-> "held", filled |-> FALSE, booked |-> TRUE],
                [ok |-> TRUE, fill |-> 0, seen |-> "flat", filled |-> TRUE, booked |-> FALSE]}
          ELSE {})

\* StockManager.close_position
close_position(M, s, buy) ==
    IF M.cc[s] = NoContract \/ M.hold[s] = 0 \/ ~buy.ok THEN M
    ELSE IF ~buy.booked THEN [M EXCEPT !.hold[s] = 0]
    ELSE LET n == Len(M.tr[s])
             quantity == IF buy.seen = "held" THEN M.hold[s] ELSE 0
             pnl == IF n = 0 THEN 0 ELSE (M.tr[s][n].price - buy.fill) * quantity * 100
         IN  [M EXCEPT !.hold[s] = IF buy.filled THEN 0 ELSE @,
                       !.cc[s] = NoContract,
                       !.tr[s] = IF n = 0 THEN @
                                 ELSE [@ EXCEPT ![n] = [@ EXCEPT !.has_pnl = TRUE, !.pnl = pnl,
                                                                  !.exit_price = buy.fill,
                                                                  !.exit_date = Time]],
                       !.done = IF n = 0 THEN @ ELSE Append(@, pnl),
                       !.closed = @ \cup {s}]

RECURSIVE CloseLoop(_, _, _, _)
\* for stock_manager in stock_managers.values():
\*     if stock_manager.should_close_position(): stock_manager.close_position()
CloseLoop(M, i, delta, buy) ==
    IF i > Len(Stocks) THEN M
    ELSE LET s == Stocks[i]
         IN  IF should_close_position(M, s, delta[s])
             THEN CloseLoop([close_position(M, s, buy[s]) EXCEPT !.fired = @ \cup {s}],
                            i + 1, delta, buy)
             ELSE CloseLoop(M, i + 1, delta, buy)

\* risk limits that stay exceeded once a day of the daily PnL list moved by
\* more than the drawdown limit
check_portfolio_risk_limits_latched(peak, dpp) ==
    \/ (peak - TotalPortfolioValue) * 100 > pm_max_drawdown * peak
    \/ /\ Len(dpp) >= 20
       /\ StdGt(dpp, Rat(pm_max_portfolio_risk * TotalPortfolioValue, 100))
    \/ \E i \in DOMAIN dpp : Abs(dpp[i]) * 100 > pm_max_drawdown * peak

\* PortfolioManager._check_portfolio_risk_limits, on the peak and the daily PnL
\* list the portfolio manager holds
check_portfolio_risk_limits(peak, dpp) ==
    \/ (peak - TotalPortfolioValue) * 100 > pm_max_drawdown * peak
    \/ /\ Len(dpp) >= 20
       /\ StdGt(dpp, Rat(pm_max_portfolio_risk * TotalPortfolioValue, 100))

count_open_positions(M) == Cardinality({s \in StockSet : Invested(M, s)})

\* should_trade_portfolio without the count of open positions
portfolio_within_risk_limits(M, peak, dpp) == ~check_portfolio_risk_limits(peak, dpp)

\* PortfolioManager.should_trade_portfolio
should_trade_portfolio(M, peak, dpp) ==
    /\ ~check_portfolio_risk_limits(peak, dpp)
    /\ count_open_positions(M) < max_stocks

\* should_trade without the test of the last trade date
should_trade_whatever_date(M, s) ==
    /\ ~Invested(M, s)
    /\ underlying_quantity[s] = 0
    /\ ~M.stop

\* should_trade without the test of the open position
should_trade_whatever_position(M, s) ==
    /\ M.ltd[s] # Time
    /\ underlying_quantity[s] = 0
    /\ ~M.stop

\* StockManager.should_trade (every stock is enabled)
stock_should_trade(M, s) ==
    /\ ~Invested(M, s)
    /\ M.ltd[s] # Time
    /\ underlying_quantity[s] = 0
    /\ ~M.stop

\* the best-scored opportunity registered last, where the code takes the first
find_last_best(M, score) ==
    LET opportunities == SelectSeq(Stocks, LAMBDA s : stock_should_trade(M, s) /\ score[s] > 0)
    IN  IF opportunities = <<>> THEN <<>>
        ELSE LET best == Max2Set({score[opportunities[i]] : i \in DOMAIN opportunities})
                 last == CHOOSE i \in DOMAIN opportunities :
                             /\ score[opportunities[i]] = best
                             /\ \A j \in (i + 1)..Len(opportunities) :
                                    score[opportunities[j]] # best
             IN  <<opportunities[last]>>

\* PortfolioManager._find_best_trading_opportunity: the stocks that should trade
\* with a positive score, the first of the best-scored ones (stable sort)
find_best_trading_opportunity(M, score) ==
    LET opportunities == SelectSeq(Stocks, LAMBDA s : stock_should_trade(M, s) /\ score[s] > 0)
    IN  IF opportunities = <<>> THEN <<>>
        ELSE LET best == Max2Set({score[opportunities[i]] : i \in DOMAIN opportunities})
                 first == CHOOSE i \in DOMAIN opportunities :
                              /\ score[opportunities[i]] = best
                              /\ \A j \in 1..(i - 1) : score[opportunities[j]] # best
             IN  <<opportunities[first]>>

\* The put PositionManager.find_and_enter_position selects for stock s from the
\* slice the data handler holds, if any: the chain of s offers one put, of
\* OfferedDTE days at the time of the slice, which has to lie in the expiry window.
selected_contract(slice, s) ==
    IF slice # NoSlice /\ s \in slice.chains
       /\ Time + dte_min <= slice.time + OfferedDTE
       /\ slice.time + OfferedDTE <= Time + dte_max
    THEN <<[Strike |-> OfferedStrike, Expiry |-> slice.time + OfferedDTE]>>
    ELSE <<>>

\* What a Sell can do: raise, or fill; a brokerage that can reject orders
\* returns a ticket that never fills.
SellFilled == [ok |-> TRUE, filled |-> TRUE]
SellOutcomes ==
    {[ok |-> FALSE, filled |-> FALSE], SellFilled}
    \cup (IF order_faults THEN {[ok |-> TRUE, filled |-> FALSE]} ELSE {})

\* a trade record written over the last one of the history instead of after it
replace_last_trade(history, trade_info) ==
    IF history = <<>> THEN <<trade_info>>
    ELSE [history EXCEPT ![Len(history)] = trade_info]

\* self.stock_manager.trades.append(trade_info)
record_trade(history, trade_info) == Append(history, trade_info)

\* The Sell and the bookkeeping that follows it; 'price' is order.AverageFillPrice
sell_to_open(M, s, contract, quantity, sell) ==
    IF ~(quantity > 0) THEN M
    ELSE IF ~sell.ok THEN [M EXCEPT !.sold = @ \cup {s}]
    ELSE [M EXCEPT !.sold = @ \cup {s},
                   !.hold[s] = IF sell.filled THEN -quantity ELSE @,
                   !.cc[s] = contract,
                   !.ltd[s] = Time,
                   !.tr[s] = record_trade(@, [has_pnl |-> FALSE, pnl |-> 0, exit_price |-> 0,
                                              exit_date |-> NoDate, date |-> Time,
                                              strike |-> contract.Strike,
                                              expiry |-> contract.Expiry,
                                              price |-> IF sell.filled THEN EntryFill ELSE 0,
                                              quantity |-> quantity]),
                   !.entered = IF sell.filled THEN @ \cup {s} ELSE @,
                   !.recorded = @ \cup {s}]

\* StockManager.find_and_enter_position, then PositionManager's: should_trade
\* again, the contract, the size, the order
find_and_enter_position(M, s, slice, sell) ==
    IF ~stock_should_trade(M, s) \/ selected_contract(slice, s) = <<>> THEN M
    ELSE sell_to_open(M, s, selected_contract(slice, s)[1],
                      calculate_position_size(M.tr, selected_contract(slice, s)[1],
                                              OfferedUnderlying).size,
                      sell)

RECURSIVE enter_each(_, _, _, _, _)
\* an entry on every stock with a positive score, in registration order
enter_each(M, i, score, sell, slice) ==
    IF i > Len(Stocks) THEN M
    ELSE enter_each(IF score[Stocks[i]] > 0
                    THEN find_and_enter_position(M, Stocks[i], slice, sell) ELSE M,
                    i + 1, score, sell, slice)

\* manage_positions entering every opportunity instead of the best one
enter_all(M, score, sell, peak, dpp, slice) ==
    IF ~should_trade_portfolio(M, peak, dpp) THEN M
    ELSE enter_each(M, 1, score, sell, slice)

\* the portfolio gate, the best opportunity and the entry on it
enter_best_opportunity(M, score, sell, peak, dpp, slice) ==
    LET best_stock == find_best_trading_opportunity(M, score)
    IN  IF ~should_trade_portfolio(M, peak, dpp) \/ best_stock = <<>> THEN M
        ELSE find_and_enter_position(M, best_stock[1], slice, sell)

\* manage_positions entering the best opportunity and then the best of the rest
enter_best_twice(M, score, sell, peak, dpp, slice) ==
    enter_best_opportunity(enter_best_opportunity(M, score, sell, peak, dpp, slice),
                           score, sell, peak, dpp, slice)

\* PortfolioManager.manage_positions after the closing loop left M
enter_best(M, score, sell, peak, dpp, slice) ==
    enter_best_opportunity(M, score, sell, peak, dpp, slice)

\* The inputs of a tick that matter: a delta for every open position, a Buy
\* outcome for every position the exit rule fires on, a score for every stock
\* that should trade, a Sell outcome if a Sell is reached.
NoBuy == [ok |-> FALSE, fill |-> 0, seen |-> "held", filled |-> FALSE, booked |-> FALSE]
\* the functions that pick, for every stock s, one element of F[s]
Choices(F) ==
    {f \in [StockSet -> UNION {F[s] : s \in StockSet}] : \A s \in StockSet : f[s] \in F[s]}
DeltaInputs(P) ==
    Choices([s \in StockSet |-> IF Invested(P, s) THEN Deltas ELSE {0}])
BuyInputs(P, delta) ==
    Choices([s \in StockSet |-> IF should_close_position(P, s, delta[s])
                                 THEN BuyOutcomes ELSE {NoBuy}])
ScoreInputs(M, peak, dpp) ==
    LET scored == IF should_trade_portfolio(M, peak, dpp)
                  THEN {s \in StockSet : stock_should_trade(M, s)} ELSE {}
    IN  Choices([s \in StockSet |-> IF s \in scored THEN ScoreValues ELSE {25}])
SellInputs(M, score, peak, dpp, slice) ==
    LET best_stock == find_best_trading_opportunity(M, score)
    IN  IF should_trade_portfolio(M, peak, dpp) /\ best_stock # <<>>
           /\ selected_contract(slice, best_stock[1]) # <<>>
        THEN SellOutcomes ELSE {SellFilled}

\* The stocks _find_best_trading_opportunity lists (should_trade and a positive
\* score), when manage_positions gets that far, and the best-scored ones of them
opportunities_of(M, score, peak, dpp) ==
    IF should_trade_portfolio(M, peak, dpp)
    THEN {s \in StockSet : stock_should_trade(M, s) /\ score[s] > 0}
    ELSE {}
top_of(M, score, peak, dpp) ==
    {s \in opportunities_of(M, score, peak, dpp) :
        \A t \in opportunities_of(M, score, peak, dpp) : score[t] <= score[s]}

\* What a tick saw and did
TickRecord(kind, delta, buy, score, sell, P, M1, M2, peak, dpp) ==
    [kind |-> kind,
     open |-> {s \in StockSet : Invested(P, s)},
     traded_today |-> {s \in StockSet : P.ltd[s] = Time},
     dte |-> [s \in StockSet |-> IF Invested(P, s) THEN P.cc[s].Expiry - Time ELSE 0],
     delta |-> [s \in StockSet |-> IF s \in M1.fired THEN delta[s] ELSE 0],
     fired |-> M1.fired,
     bought |-> {s \in M1.fired : buy[s].ok},
     buy_filled |-> {s \in M1.fired : buy[s].ok /\ buy[s].filled},
     closed |-> M1.closed,
     permitted |-> IF should_trade_portfolio(M1, peak, dpp)
                   THEN {s \in StockSet : stock_should_trade(M1, s)} ELSE {},
     opportunities |-> opportunities_of(M1, score, peak, dpp),
     top |-> top_of(M1, score, peak, dpp),
     sell_ok |-> sell.ok,
     sell_filled |-> sell.filled,
     entered |-> M2.entered,
     recorded |-> M2.recorded,
     sold |-> M2.sold,
     portfolio_limits |-> check_portfolio_risk_limits(peak, dpp),
     stop_trading_before |-> should_stop_trading(P.tr),
     stop_trading |-> M1.stop,
     drawdown |-> drawdown_breaker]

\* manage_positions with the peak, the daily PnL list and the slice given
ManagePositions(kind, peak, dpp, slice) ==
    \E P \in {Positions} :
    \E delta \in DeltaInputs(P) : \E buy \in BuyInputs(P, delta) :
    \E closed \in {CloseLoop(P, 1, delta, buy)} :
    \E M1 \in {[closed EXCEPT !.stop = should_stop_trading(closed.tr)]} :
    \E score \in ScoreInputs(M1, peak, dpp) :
    \E sell \in SellInputs(M1, score, peak, dpp, slice) :
    \E M2 \in {enter_best(M1, score, sell, peak, dpp, slice)} :
        /\ current_contract' = M2.cc
        /\ holdings' = M2.hold
        /\ trades' = M2.tr
        /\ last_trade_date' = M2.ltd
        /\ completed' = M2.done
        /\ tick' = TickRecord(kind, delta, buy, score, sell, P, M1, M2, peak, dpp)
        /\ ticks' = ticks + 1
        /\ highest_observed' = Max2(highest_observed, TotalPortfolioValue)

\* The option chains a slice can hold: of the first stock alone, or of every stock
ChainSets == {{Stocks[1]}, StockSet}

\* ConfigurableShortPutStrategy.OnData(slice): update_portfolio_data (the slice
\* to every data handler, _update_portfolio_performance), then manage_positions
OnData(chains) ==
    /\ ticks < MaxTicks
    /\ LET slice == [time |-> Time, chains |-> chains]
           peak == Max2(pm_peak_portfolio_value, TotalPortfolioValue)
           appended == IF last_portfolio_value = NoValue THEN daily_portfolio_pnl
                       ELSE Append(daily_portfolio_pnl,
                                   TotalPortfolioValue - last_portfolio_value)
           dpp == IF Len(appended) > 100 THEN Tail(appended) ELSE appended
       IN  /\ latest_slice' = slice
           /\ pm_peak_portfolio_value' = peak
           /\ daily_portfolio_pnl' = dpp
           /\ last_portfolio_value' = TotalPortfolioValue
           /\ ManagePositions("OnData", peak, dpp, slice)
    /\ UNCHANGED <<critVars, selectVars, max_stocks, order_faults, TotalPortfolioValue, MarginRemaining, peak_portfolio_value,
                   daily_pnl, riskCall, Time, underlying_quantity>>

\* Scheduler.evaluate_option_strategy: manage_positions alone
evaluate_option_strategy ==
    /\ ticks < MaxTicks
    /\ ManagePositions("Scheduled", pm_peak_portfolio_value, daily_portfolio_pnl, latest_slice)
    /\ UNCHANGED <<critVars, selectVars, max_stocks, order_faults, TotalPortfolioValue, MarginRemaining, peak_portfolio_value,
                   daily_pnl, daily_portfolio_pnl, riskCall, Time, underlying_quantity,
                   latest_slice, pm_peak_portfolio_value, last_portfolio_value>>

\* The market moves the portfolio value and the margin the broker leaves available.
MarketMove(value, margin) ==
    /\ <<value, margin>> # <<TotalPortfolioValue, MarginRemaining>>
    /\ TotalPortfolioValue' = value
    /\ MarginRemaining' = margin
    /\ tick' = NoTick
    /\ UNCHANGED <<critVars, selectVars, max_stocks, order_faults, peak_portfolio_value, trades, daily_pnl,
                   daily_portfolio_pnl, completed, riskCall, Time, current_contract,
                   holdings, underlying_quantity, last_trade_date, latest_slice,
                   pm_peak_portfolio_value, last_portfolio_value, highest_observed, ticks>>

\* The clock moves on.
AdvanceDay ==
    /\ Time + DayJump <= MaxDay
    /\ Time' = Time + DayJump
    /\ tick' = NoTick
    /\ UNCHANGED <<critVars, selectVars, riskVars, max_stocks, order_faults, current_contract, holdings, underlying_quantity,
                   last_trade_date, latest_slice, pm_peak_portfolio_value,
                   last_portfolio_value, highest_observed, ticks>>

\* A held put expires: worthless, or assigned (100 shares a contract).
Expire(s, assigned) ==
    /\ current_contract[s] # NoContract
    /\ holdings[s] # 0
    /\ Time >= current_contract[s].Expiry
    /\ holdings' = [holdings EXCEPT ![s] = 0]
    /\ underlying_quantity' =
           [underlying_quantity EXCEPT ![s] = IF assigned THEN @ - 100 * holdings[s] ELSE @]
    /\ tick' = NoTick
    /\ UNCHANGED <<critVars, selectVars, riskVars, max_stocks, order_faults, Time, current_contract, last_trade_date,
                   latest_slice, pm_peak_portfolio_value, last_portfolio_value,
                   highest_observed, ticks>>

\* The broker closes a short put on a margin call; the program is not told.
Liquidate(s) ==
    /\ holdings[s] # 0
    /\ holdings' = [holdings EXCEPT ![s] = 0]
    /\ tick' = NoTick
    /\ UNCHANGED <<critVars, selectVars, riskVars, max_stocks, order_faults, Time, current_contract,
                   underlying_quantity, last_trade_date, latest_slice,
                   pm_peak_portfolio_value, last_portfolio_value, highest_observed, ticks>>

Init ==
    /\ criteria = <<>>
    /\ lastCall = NoCall
    /\ removed = FALSE
    /\ SelectIdle
    /\ RiskIdle
    /\ TickIdle
    /\ max_stocks = default_max_stocks
    /\ order_faults = FALSE

Next ==
    \/ \E chains \in ChainSets : OnData(chains)
    \/ evaluate_option_strategy
    \/ \E account \in AccountStates : MarketMove(account[1], account[2])
    \/ AdvanceDay
    \/ \E s \in StockSet, assigned \in BOOLEAN : Expire(s, assigned)
    \/ \E s \in StockSet : Liquidate(s)

Spec == Init /\ [][Next]_vars

\* The same program under a portfolio configuration that allows one open
\* position at a time ('max_stocks': 1)
InitCapped ==
    /\ criteria = <<>>
    /\ lastCall = NoCall
    /\ removed = FALSE
    /\ SelectIdle
    /\ RiskIdle
    /\ TickIdle
    /\ max_stocks = 1
    /\ order_faults = FALSE

SpecCapped == InitCapped /\ [][Next]_vars

\* The same program with a brokerage that can reject an order (the ticket comes
\* back unfilled) and with bookkeeping that can raise after a Buy
InitFaults ==
    /\ criteria = <<>>
    /\ lastCall = NoCall
    /\ removed = FALSE
    /\ SelectIdle
    /\ RiskIdle
    /\ TickIdle
    /\ max_stocks = default_max_stocks
    /\ order_faults = TRUE

SpecFaults == InitFaults /\ [][Next]_vars

\* The same program picked up after earlier round trips of the first stock: its
\* history holds two or three closed trades, each sold at EntryFill and bought
\* back lower, with the PnL close_position recorded for it (negative: the
\* quantity it multiplies by is the short holding).
PastTrade(k, n) ==
    LET day == (k - n - 1) * 60
    IN  [has_pnl |-> TRUE, pnl |-> (EntryFill - 1) * (0 - 2) * 100, exit_price |-> 1,
         exit_date |-> day + OfferedDTE, date |-> day, strike |-> OfferedStrike,
         expiry |-> day + OfferedDTE, price |-> EntryFill, quantity |-> 2]
PastHistory(n) == [k \in 1..n |-> PastTrade(k, n)]
PastLengths == {2, 3}

InitHistory ==
    /\ criteria = <<>>
    /\ lastCall = NoCall
    /\ removed = FALSE
    /\ SelectIdle
    /\ TotalPortfolioValue = initial_cash
    /\ MarginRemaining = initial_cash
    /\ peak_portfolio_value = initial_cash
    /\ \E n \in PastLengths :
           /\ trades = [s \in StockSet |-> IF s = Stocks[1] THEN PastHistory(n) ELSE <<>>]
           /\ completed = [k \in 1..n |-> PastTrade(k, n).pnl]
    /\ daily_pnl = [s \in StockSet |-> <<>>]
    /\ daily_portfolio_pnl = <<>>
    /\ riskCall = NoCall
    /\ Time = 0
    /\ current_contract = [s \in StockSet |-> NoContract]
    /\ holdings = [s \in StockSet |-> 0]
    /\ underlying_quantity = [s \in StockSet |-> 0]
    /\ last_trade_date = [s \in StockSet |-> IF s = Stocks[1] THEN 0 - 60 ELSE NoDate]
    /\ latest_slice = NoSlice
    /\ pm_peak_portfolio_value = initial_cash
    /\ last_portfolio_value = NoValue
    /\ highest_observed = initial_cash
    /\ ticks = 0
    /\ tick = NoTick
    /\ max_stocks = default_max_stocks
    /\ order_faults = FALSE

\* OnData runs on every slice of the data feed and the scheduler calls
\* evaluate_option_strategy every day
SpecHistory ==
    /\ InitHistory /\ [][Next]_vars
    /\ WF_vars(\E chains \in ChainSets : OnData(chains))
    /\ WF_vars(evaluate_option_strategy)


-----------------------------------------------------------------------------
(* Claims about a tick, checked under Spec *)

Ticked == tick # NoTick

\* C6: at every tick, the drawdown breaker is tripped exactly when the current
\* portfolio value is below P x (1 - max_drawdown), P being the highest
\* portfolio value observed up to and including that tick.
C6_DrawdownFromHighestObserved ==
    Ticked =>
        (tick.drawdown <=>
            TotalPortfolioValue * 100 < highest_observed * (100 - max_drawdown))

\* A breaker is tripped as the tick ends: drawdown from the highest value
\* observed, 3 of the last 5 completed trades lost, or a volatile daily PnL
\* window (exits come before the gate, so the tick's own closes count).
AnyBreakerTripped ==
    \/ TotalPortfolioValue * 100 < highest_observed * (100 - max_drawdown)
    \/ ThreeOfLastFiveLost
    \/ /\ Len(daily_portfolio_pnl) >= volatility_lookback
       /\ StdGt(daily_portfolio_pnl, Rat(TotalPortfolioValue * max_portfolio_risk, 100))

\* Every position whose exit rule fired and whose buy-back was filled is closed.
FiredAreClosed ==
    \A s \in tick.fired \cap tick.bought :
        s \in tick.closed /\ (s \notin tick.entered => current_contract[s] = NoContract)

NoNewPosition ==
    /\ tick.entered = {}
    /\ {s \in StockSet : Invested(Positions, s)} \subseteq tick.open

\* C9: a tripped circuit breaker blocks only new entries: in a tick where any
\* breaker is tripped, every open position whose exit rule fires is still
\* closed (its buy-back order being filled), and no new position is opened.
C9_BreakerBlocksEntriesOnly ==
    (Ticked /\ AnyBreakerTripped) => (FiredAreClosed /\ NoNewPosition)

\* The gate as the tick evaluates it: when the portfolio risk limits or
\* risk_manager.should_stop_trading() answer that a breaker is tripped, fired
\* positions are closed all the same and nothing is entered.
GateFollowsEvaluation ==
    (Ticked /\ (tick.portfolio_limits \/ tick.stop_trading)) =>
        (FiredAreClosed /\ NoNewPosition)

\* A tick that evaluated a breaker as tripped and closed a fired position.
GateFollowsEvaluationSeen ==
    /\ Ticked
    /\ tick.portfolio_limits \/ tick.stop_trading
    /\ tick.fired \cap tick.closed # {}

\* C10: the exit rule closes an open position only if DTE is at most 14 and
\* |delta| lies outside the target delta range; it never fires when DTE is above
\* 14, whatever the delta, nor when |delta| is inside the range, whatever the DTE.
C10_ExitOnlyNearExpiryAndOutOfRange ==
    Ticked =>
        \A s \in tick.fired \cup tick.closed :
            /\ s \in tick.open
            /\ tick.dte[s] <= 14
            /\ (tick.delta[s] < target_delta_min \/ tick.delta[s] > target_delta_max)

\* A tick that closed a position near expiry whose |delta| was above the range.
C10_Witness ==
    /\ Ticked
    /\ \E s \in tick.closed :
           /\ tick.dte[s] <= 14
           /\ tick.delta[s] > target_delta_max
           /\ current_contract[s] = NoContract

\* PositionManager.should_enter_position: MarginRemaining < 10000
margin_floor == 10000

\* C11: no entry order is placed for an asset in a tick if the underlying is
\* held, the asset has an open position, a trade already happened today for it,
\* the remaining margin is below the floor (10000), any circuit breaker is
\* tripped, or the snapshot or the option chain is unavailable.
C11_EntryGuard ==
    Ticked =>
        \A s \in tick.entered :
            /\ underlying_quantity[s] = 0
            /\ s \notin (tick.open \ tick.closed)
            /\ s \notin tick.traded_today
            /\ MarginRemaining >= margin_floor
            /\ ~AnyBreakerTripped
            /\ latest_slice # NoSlice
            /\ s \in latest_slice.chains

\* C12: in every tick, whatever the number of eligible assets, at most one new
\* position is entered across the whole portfolio (one Sell, one trade record).
C12_AtMostOneEntryPerTick ==
    [][/\ Len(all_trades(trades')) <= Len(all_trades(trades)) + 1
       /\ Cardinality({s \in StockSet : Len(trades'[s]) > Len(trades[s])}) <= 1]_vars

\* A tick that listed two opportunities and entered one position.
C12_Witness ==
    /\ Ticked
    /\ Cardinality(tick.opportunities) >= 2
    /\ Cardinality(tick.entered) = 1
    /\ Cardinality({s \in StockSet : Invested(Positions, s)}) = 1

\* The stock of S registered first (insertion order of stock_managers)
FirstRegistered(S) ==
    Stocks[CHOOSE i \in DOMAIN Stocks :
               Stocks[i] \in S /\ \A j \in 1..(i - 1) : Stocks[j] \notin S]

\* The opportunities of the tick that pass the rest of the entry guard: margin
\* above the floor, a snapshot and an option chain at hand.
EligibleInTick ==
    {s \in tick.opportunities :
        /\ MarginRemaining >= margin_floor
        /\ latest_slice # NoSlice
        /\ s \in latest_slice.chains}
\* (any two eligible stocks are all the opportunities of the tick)
TopEligible == tick.top \cap EligibleInTick

OpenAfterExits == tick.open \ tick.closed

C16_OneEntryPerAssetPerDay ==
    \A s \in StockSet : \A i, j \in DOMAIN trades[s] :
        trades[s][i].date = trades[s][j].date => i = j

\* an asset entered earlier in the day is flat again, and passes every other
\* test of a later tick of that day
C16_Witness ==
    /\ Ticked
    /\ ~tick.portfolio_limits /\ ~tick.stop_trading
    /\ \E s \in tick.traded_today \ tick.open :
           /\ Len(trades[s]) = 1
           /\ trades[s][1].date = Time
           /\ underlying_quantity[s] = 0
           /\ selected_contract(latest_slice, s) # <<>>

\* The record of the trade a stock closed in the tick was opened with
ClosedRecord(s) == trades[s][Len(trades[s]) - (IF s \in tick.entered THEN 1 ELSE 0)]

\* C17: closing a position opened at fill price E with quantity Q at fill price
\* X records PnL = (E - X) x Q x 100 on that trade and leaves the asset without
\* a current contract (unless the same tick enters it again).
C17_RoundTrip ==
    Ticked =>
        \A s \in tick.closed :
            /\ ClosedRecord(s).has_pnl
            /\ ClosedRecord(s).pnl =
                   (ClosedRecord(s).price - ClosedRecord(s).exit_price)
                       * ClosedRecord(s).quantity * 100
            /\ s \notin tick.entered =>
                   current_contract[s] = NoContract /\ holdings[s] = 0

\* what the code does record: the asset is flat, and the PnL is the price
\* difference times the quantity of the holding as read after the Buy, which is
\* minus the quantity sold or zero
C17_RecordedPnl ==
    Ticked =>
        \A s \in tick.closed :
            /\ ClosedRecord(s).has_pnl
            /\ ClosedRecord(s).pnl \in
                   {(ClosedRecord(s).price - ClosedRecord(s).exit_price)
                        * q * 100 : q \in {-ClosedRecord(s).quantity, 0}}
            /\ s \notin tick.entered =>
                   current_contract[s] = NoContract /\ holdings[s] = 0

-----------------------------------------------------------------------------
(* Further claims about TradingContext and CriteriaManager, checked under SpecCriteria *)

\* C18: validation accepts every context with delta in [0, 1], dte >= 0,
\* strike > 0, underlying price > 0, volatility in [0, 2], rsi in [0, 100] and
\* trend strength in [0, 1], and rejects every context outside these ranges.
C18_ValidationMatchesRanges ==
    lastCall.called =>
        (validate(lastCall.ctx) = <<>> <=> RangeViolations(lastCall.ctx) = {})

\* the half that holds: a context outside the ranges is rejected
C18_OutOfRangeRejected ==
    lastCall.called =>
        (RangeViolations(lastCall.ctx) # {} => validate(lastCall.ctx) # <<>>)

\* The Delta criteria the manager holds
DeltaCriteria == {criteria[i] : i \in {j \in DOMAIN criteria : criteria[j].name = "Delta"}}

InRange(c, ctx) == c.lo <= Abs(ctx.delta) /\ Abs(ctx.delta) <= c.hi

\* a should_trade call that evaluated the criteria
Evaluated == lastCall.called /\ lastCall.out.evaluated # <<>>

\* C19: for every |delta| inside the target range (endpoints included) the Delta
\* criterion passes with a score in (0, 1]; for every |delta| outside it fails
\* with score exactly 0.
C19_DeltaCriterionScore ==
    Evaluated =>
        \A c \in DeltaCriteria :
            LET e == evaluate(c, lastCall.ctx)
            IN  IF InRange(c, lastCall.ctx)
                THEN e.result = "PASS" /\ e.score[1] > 0 /\ e.score[1] <= e.score[2]
                ELSE e.result = "FAIL" /\ e.score = RZero

\* what holds at the endpoints too: a pass with a score in [0, 1]
C19_ScoreInUnitInterval ==
    Evaluated =>
        \A c \in DeltaCriteria :
            LET e == evaluate(c, lastCall.ctx)
            IN  IF InRange(c, lastCall.ctx)
                THEN /\ e.result = "PASS" /\ e.score[1] >= 0 /\ e.score[1] <= e.score[2]
                     /\ (e.score = RZero <=> Abs(lastCall.ctx.delta) \in {c.lo, c.hi})
                ELSE e.result = "FAIL" /\ e.score = RZero

\* C20: with no criteria registered, initially or after every criterion has
\* been removed, should_trade returns (true, 1.0) for every context.
C20_EmptyManagerAdmits ==
    (lastCall.called /\ criteria = <<>>) =>
        lastCall.out.admit /\ lastCall.out.score = ROne

\* a manager emptied by removals is asked about a context that fails validation
C20_Witness ==
    /\ lastCall.called
    /\ criteria = <<>>
    /\ removed
    /\ validate(lastCall.ctx) # <<>>

-----------------------------------------------------------------------------
(* The contract selection of PositionManager.find_and_enter_position *)

MaxChain == 2               \* contracts in a chain at most

ChainUnderlyingPrice == 100 \* chain.Underlying.Price
optimal_dte == 45           \* select_best_contract: "middle of typical range"

\* A contract of the chain: the right, the days from algorithm.Time to the
\* expiry, |delta| in hundredths (0: no Greeks), the strike, and whether the
\* expiry is a third Friday.
Contract(right, dte, delta, strike, third_friday) ==
    [Right |-> right, dte |-> dte, Delta |-> delta, Strike |-> strike,
     third_friday |-> third_friday]

BaseContract == Contract("Put", 45, 30, 100, TRUE)

\* The contracts explored: the base contract, and those that differ from it in
\* one respect (the right, the expiry around the window bounds, the delta
\* around the range bounds, a strike above or below the price, the expiry day).
ContractPool ==
    {BaseContract, Contract("Call", 45, 30, 100, TRUE), Contract("Put", 45, 30, 100, FALSE)}
    \cup {Contract("Put", d, 30, 100, TRUE) : d \in {29, 30, 60, 61}}
    \cup {Contract("Put", 45, d, 100, TRUE) : d \in {0, 14, 15, 40, 41}}
    \cup {Contract("Put", 45, 30, k, TRUE) : k \in {95, 105}}

Regimes == {"bullish_low_vol", "normal", "bearish_high_vol"}
Frequencies == {"monthly", "any"}

RECURSIVE SeqsUpTo(_, _)
\* the sequences over S of length n at most
SeqsUpTo(S, n) ==
    IF n = 0 THEN {<<>>}
    ELSE SeqsUpTo(S, n - 1) \cup {Append(q, x) : q \in {r \in SeqsUpTo(S, n - 1) : Len(r) = n - 1}, x \in S}

\* MarketAnalyzer.get_optimal_delta_range, hundredths
get_optimal_delta_range(regime) ==
    CASE regime = "bullish_low_vol" -> <<15, 35>>
      [] regime = "bearish_high_vol" -> <<10, 25>>
      [] OTHER -> <<15, 40>>

\* MarketAnalyzer.get_optimal_dte_range (the volatility of bullish_low_vol is low)
get_optimal_dte_range(regime) ==
    CASE regime = "bearish_high_vol" -> <<45, 90>>
      [] regime = "bullish_low_vol" -> <<21, 45>>
      [] OTHER -> <<dte_min, dte_max>>

\* PositionManager.is_valid_option
is_valid_option(c, option_frequency) ==
    CASE option_frequency = "monthly" -> c.third_friday
      [] option_frequency = "any" -> TRUE
      [] OTHER -> FALSE

\* the expiry window and the delta range of step 7
in_expiry_window(c, regime) ==
    get_optimal_dte_range(regime)[1] <= c.dte /\ c.dte <= get_optimal_dte_range(regime)[2]
in_delta_range(c, regime) ==
    get_optimal_delta_range(regime)[1] <= c.Delta /\ c.Delta <= get_optimal_delta_range(regime)[2]

\* a selection that does not look at the expiry frequency
passes_frequency_any(c, option_frequency) == TRUE

\* step 6: the frequency filter, applied unless the frequency is "any"
passes_frequency(c, option_frequency) ==
    option_frequency = "any" \/ is_valid_option(c, option_frequency)

\* steps 5 to 7: the positions in the chain of the puts that pass the filters,
\* in chain order
valid_puts(chain, regime, option_frequency) ==
    SelectSeq([i \in 1..Len(chain) |-> i],
              LAMBDA i : /\ chain[i].Right = "Put"
                         /\ passes_frequency(chain[i], option_frequency)
                         /\ in_expiry_window(chain[i], regime)
                         /\ in_delta_range(chain[i], regime))

\* select_best_contract: the score of one contract
strike_score(c, regime) ==
    LET strike_distance == Rat(Abs(c.Strike - ChainUnderlyingPrice), ChainUnderlyingPrice)
        capped == IF RLe(strike_distance, Rat(1, 10)) THEN strike_distance ELSE Rat(1, 10)
        plain == RSub(ROne, RScale(10, capped))
    IN  CASE regime = "bullish_low_vol" -> Rat(12 * plain[1], 10 * plain[2])
          [] regime = "bearish_high_vol" -> Rat(8 * plain[1], 10 * plain[2])
          [] OTHER -> plain
delta_score(c) ==
    RSub(ROne, Rat(Abs(2 * c.Delta - (target_delta_min + target_delta_max)),
                        target_delta_min + target_delta_max))
dte_score(c) == RSub(ROne, Rat(Abs(c.dte - optimal_dte), optimal_dte))
total_score(c, regime) ==
    LET sum == RAdd(RAdd(RScale(4, strike_score(c, regime)), RScale(4, delta_score(c))),
                    RScale(2, dte_score(c)))
    IN  Rat(sum[1], 10 * sum[2])

\* the last of the best-scored instead of the first
select_last_best(chain, valid, regime) ==
    IF valid = <<>> THEN <<>>
    ELSE <<valid[CHOOSE k \in DOMAIN valid :
                /\ \A j \in DOMAIN valid :
                       RLe(total_score(chain[valid[j]], regime), total_score(chain[valid[k]], regime))
                /\ \A j \in DOMAIN valid : j > k =>
                       RLt(total_score(chain[valid[j]], regime), total_score(chain[valid[k]], regime))]>>

\* select_best_contract: sort(key=score, reverse=True) is stable, so the first
\* of the best-scored contracts in chain order is returned; None is <<>>
select_best_contract(chain, valid, regime) ==
    IF valid = <<>> THEN <<>>
    ELSE <<valid[CHOOSE k \in DOMAIN valid :
                /\ \A j \in DOMAIN valid :
                       RLe(total_score(chain[valid[j]], regime), total_score(chain[valid[k]], regime))
                /\ \A j \in DOMAIN valid : j < k =>
                       RLt(total_score(chain[valid[j]], regime), total_score(chain[valid[k]], regime))]>>

\* steps 5 to 8 of find_and_enter_position: the position in the chain of the
\* contract selected, if any
select_contract(in) ==
    select_best_contract(in.chain, valid_puts(in.chain, in.regime, in.option_frequency),
                         in.regime)

InitSelect ==
    /\ criteria = <<>>
    /\ lastCall = NoCall
    /\ removed = FALSE
    /\ RiskIdle
    /\ TickIdle
    /\ max_stocks = default_max_stocks
    /\ order_faults = FALSE
    /\ selector_call = NoCall
    /\ selector_input \in [chain : SeqsUpTo(ContractPool, MaxChain), regime : Regimes,
                           option_frequency : Frequencies]

CallSelectContract ==
    /\ ~selector_call.called
    /\ selector_call' = [called |-> TRUE, out |-> select_contract(selector_input)]
    /\ UNCHANGED <<critVars, riskVars, tickVars, selector_input>>

NextSelect == CallSelectContract

SpecSelect == InitSelect /\ [][NextSelect]_vars

-----------------------------------------------------------------------------
(* Claims about the contract selection, checked under SpecSelect *)

Selected == selector_call.called
SelChain == selector_input.chain
SelScore(i) == total_score(SelChain[i], selector_input.regime)

\* the puts inside the expiry window and the delta range
InWindowAndRange ==
    {i \in DOMAIN SelChain : /\ SelChain[i].Right = "Put"
                             /\ in_expiry_window(SelChain[i], selector_input.regime)
                             /\ in_delta_range(SelChain[i], selector_input.regime)}

\* those of them whose expiry matches the configured frequency
Survivors ==
    {i \in InWindowAndRange :
        selector_input.option_frequency = "monthly" => SelChain[i].third_friday}

\* the selection is the best-scored member of S, the earliest among equal
\* scores, and nothing when S is empty
SelectsBestOf(S) ==
    /\ S = {} => selector_call.out = <<>>
    /\ S # {} =>
           /\ selector_call.out # <<>>
           /\ selector_call.out[1] \in S
           /\ \A j \in S :
                  /\ RLe(SelScore(j), SelScore(selector_call.out[1]))
                  /\ REq(SelScore(j), SelScore(selector_call.out[1])) => selector_call.out[1] <= j

-----------------------------------------------------------------------------
(* Claims about orders that fail, checked under SpecFaults *)

\* The asset's own state: pointer, last trade date, trade history (trade_count
\* is the length of the history: both grow in the same statements)
PointerSet(s) == current_contract[s] # NoContract
OpenRecord(s) == trades[s] # <<>> /\ ~trades[s][Len(trades[s])].has_pnl
SellFilledFor(s) == s \in tick.sold /\ tick.sell_ok /\ tick.sell_filled
BuyFilledFor(s) == s \in tick.buy_filled

\* C22: after every tick and for every asset, the pointer is set and an open
\* trade record exists if and only if a sell order took effect and has not been
\* bought back: a tick that sold the asset's put leaves pointer and open record,
\* a tick that bought it back (and did not sell again) leaves neither, and a
\* tick in which no order of the asset took effect leaves pointer and trade
\* history as they were.
C22_PointerRecordOrderConsistent ==
    [][tick'.kind # "none" =>
          \A s \in StockSet :
              /\ SellFilledFor(s)' => (PointerSet(s)' /\ OpenRecord(s)')
              /\ (BuyFilledFor(s)' /\ ~SellFilledFor(s)') => (~PointerSet(s)' /\ ~OpenRecord(s)')
              /\ (~BuyFilledFor(s)' /\ ~SellFilledFor(s)') =>
                     /\ current_contract'[s] = current_contract[s]
                     /\ trades'[s] = trades[s]]_vars

\* the two ticks of which the claim speaks have happened: a put was sold and
\* recorded, and a later tick bought it back and cleared the pointer
C22_SoldTick == Ticked /\ \E s \in StockSet : SellFilledFor(s) /\ PointerSet(s) /\ OpenRecord(s)
C22_BoughtBackTick ==
    Ticked /\ \E s \in StockSet : BuyFilledFor(s) /\ ~SellFilledFor(s) /\ ~PointerSet(s)

FailedEntry(s) == s \in tick.sold /\ ~(tick.sell_ok /\ tick.sell_filled)
FailedExit(s) == s \in tick.fired /\ s \notin tick.buy_filled
RaisedEntry(s) == s \in tick.sold /\ ~tick.sell_ok
RaisedExit(s) == s \in tick.fired /\ s \notin tick.bought
AssetStateUnchanged(s) ==
    /\ current_contract'[s] = current_contract[s]
    /\ last_trade_date'[s] = last_trade_date[s]
    /\ trades'[s] = trades[s]

\* C23: a tick whose only order for an asset raised or failed (an entry or an
\* exit) leaves the asset's contract pointer, last trade date, trade count and
\* trade history exactly as they were before the tick.
C23_FailedOrderLeavesState ==
    [][tick'.kind # "none" =>
          \A s \in StockSet :
              /\ (FailedEntry(s)' /\ s \notin tick'.fired) => AssetStateUnchanged(s)
              /\ (FailedExit(s)' /\ s \notin tick'.sold) => AssetStateUnchanged(s)]_vars

\* the part of C23 that holds: an order call that raises leaves the asset's state
C23_RaisedOrderLeavesState ==
    [][tick'.kind # "none" =>
          \A s \in StockSet :
              /\ (RaisedEntry(s)' /\ s \notin tick'.fired) => AssetStateUnchanged(s)
              /\ (RaisedExit(s)' /\ s \notin tick'.sold) => AssetStateUnchanged(s)]_vars

C23_RaisedEntrySeen == Ticked /\ \E s \in StockSet : RaisedEntry(s) /\ s \notin tick.fired
C23_RaisedExitSeen == Ticked /\ \E s \in StockSet : RaisedExit(s) /\ s \notin tick.sold

\* C24: after a tick in which the buy-back order of an asset's position was
\* placed (the Buy returned), the asset's contract pointer is cleared, whether
\* or not the PnL bookkeeping that follows the Buy went through (a roll, which
\* sets the pointer again in the same tick, aside).
C24_PointerClearedOnceBought ==
    \A s \in StockSet :
        (Ticked /\ s \in tick.bought /\ s \notin tick.recorded) => ~PointerSet(s)

\* what the failed bookkeeping leaves: no position, so the asset trades again
C24_NotStuck ==
    \A s \in StockSet :
        (Ticked /\ s \in tick.bought /\ s \notin tick.recorded) => holdings[s] = 0 \/ ~PointerSet(s)

-----------------------------------------------------------------------------
(* Claims about the trade history, checked under Spec *)

EntryFields(r) == <<r.date, r.strike, r.expiry, r.quantity, r.price>>
IsOpenRecord(r) == ~r.has_pnl /\ r.exit_date = NoDate /\ r.exit_price = 0 /\ r.pnl = 0
\* record r closed today: exit price, exit date and PnL written, its entry kept
ClosedToday(r, old) ==
    /\ IsOpenRecord(old) /\ r.has_pnl /\ r.exit_date = Time
    /\ EntryFields(r) = EntryFields(old)
\* the record the entry of the asset's current position created
OwnRecord(r, s) ==
    /\ current_contract[s] # NoContract /\ holdings[s] # 0
    /\ r.strike = current_contract[s].Strike /\ r.expiry = current_contract[s].Expiry
    /\ r.date = last_trade_date[s]

\* the history of s after a step: left alone, one open record appended, or the
\* last record closed (if it is open and the current position's own), possibly
\* followed by one appended open record (a roll)
HistoryStep(s) ==
    LET old == trades[s]
        new == trades'[s]
        n   == Len(old)
        closes == /\ n > 0 /\ Len(new) >= n
                  /\ \A i \in 1..(n - 1) : new[i] = old[i]
                  /\ ClosedToday(new[n], old[n])
                  /\ OwnRecord(old[n], s)
        appends(m) == Len(new) = m + 1 /\ IsOpenRecord(new[m + 1]) /\ new[m + 1].date = Time
    IN  \/ new = old
        \/ appends(n) /\ SubSeq(new, 1, n) = old
        \/ closes /\ Len(new) = n
        \/ closes /\ appends(n)

-----------------------------------------------------------------------------
(* Claims about the circuit breakers *)

\* The breakers' conditions on the values as they stand when the tick ends
\* (a tick that recorded an entry evaluated its gate on the history before it)
GateTrades ==
    [s \in StockSet |-> IF s \in tick.recorded
                        THEN SubSeq(trades[s], 1, Len(trades[s]) - 1) ELSE trades[s]]
PortfolioDrawdownExceeded ==
    (pm_peak_portfolio_value - TotalPortfolioValue) * 100
        > pm_max_drawdown * pm_peak_portfolio_value
PortfolioVolatilityExceeded ==
    /\ Len(daily_portfolio_pnl) >= 20
    /\ StdGt(daily_portfolio_pnl, Rat(pm_max_portfolio_risk * TotalPortfolioValue, 100))
RiskDrawdownExceeded ==
    TotalPortfolioValue * 100 < peak_portfolio_value * (100 - max_drawdown)
LossStreak ==
    LET recent == SelectSeq(LastN(all_trades(GateTrades), 5), LAMBDA r : r.has_pnl)
    IN  Len(SelectSeq(recent, LAMBDA r : r.pnl < 0)) >= 3
BreakerConditionHolds ==
    \/ PortfolioDrawdownExceeded \/ PortfolioVolatilityExceeded
    \/ RiskDrawdownExceeded \/ LossStreak

\* the assets that pass the tests of the tick which are not breakers
FreeToEnter ==
    IF Cardinality(OpenAfterExits) >= max_stocks THEN {}
    ELSE {s \in StockSet : /\ s \notin OpenAfterExits
                           /\ s \notin tick.traded_today
                           /\ underlying_quantity[s] = 0}

\* C26: the breakers are not latched: the assets on which a tick permits an
\* entry are those free to enter if none of the breaker conditions holds on the
\* portfolio value, the peaks, the trade history and the daily PnL list of that
\* tick, and none if one holds; nothing remembered from an earlier tick blocks.
C26_BreakersNotLatched ==
    Ticked => tick.permitted = (IF BreakerConditionHolds THEN {} ELSE FreeToEnter)

\* an OnData tick saw the portfolio 16% under its peak (the daily PnL list shows
\* the value it saw) and was blocked; the value has recovered and this tick enters
C26_Witness ==
    /\ Ticked
    /\ tick.entered # {}
    /\ pm_peak_portfolio_value = initial_cash
    /\ daily_portfolio_pnl # <<>>
    /\ LET seen == TotalPortfolioValue - daily_portfolio_pnl[Len(daily_portfolio_pnl)]
       IN  (initial_cash - seen) * 100 > pm_max_drawdown * initial_cash

LossBreakerTripped == consecutive_loss_breaker(trades)
EntriesPermitted == Ticked /\ tick.permitted # {}

C27_LossBreakerAbsorbing ==
    [][LossBreakerTripped =>
          (LossBreakerTripped' /\ (tick'.kind # "none" => tick'.permitted = {}))]_vars

\* the breaker trips in the run: the third loss is recorded by a close
C27_TrippedByClose ==
    /\ Ticked /\ tick.closed # {}
    /\ LossBreakerTripped
    /\ Len(trades[Stocks[1]]) = 3 /\ ticks = 2

-----------------------------------------------------------------------------
(* Claims about the orders of a tick *)

\* the orders a tick placed that changed a position: buy-backs and sells that filled
TradeActions == Cardinality(tick.buy_filled) + Cardinality({s \in tick.sold : SellFilledFor(s)})

-----------------------------------------------------------------------------
(* Further claims about the RiskManager, checked under SpecRisk *)

\* margin required for one contract: Strike * 100 * 0.2
MarginRequirement == riskCall.contract.Strike * 20

TrailingWindow == LastN(all_daily_pnl, 20)
TrailingStdAbove(r) ==
    VarNum(TrailingWindow) * r[2] * r[2] > r[1] * r[1] * 100 * 100 * 20 * 20
TrailingStdBelow(r) ==
    VarNum(TrailingWindow) * r[2] * r[2] < r[1] * r[1] * 100 * 100 * 20 * 20
KellySizingCall == SizingCall /\ riskCall.out.path = "kelly"

====
